---- MODULE Spec2Model ----
(***************************************************************************)
(* Model of the WhatsApp scheduling bot: src/index.js (the script) and     *)
(* src/server.js (the Express variant, which also serves /status, /qr.svg  *)
(* and /trigger).  Both read messages.txt, time.txt                        *)
(* and targets.txt when the protocol client reports connection 'open',     *)
(* create one setTimeout per message and, when a timer fires, call         *)
(* sock.sendMessage once per target.                                       *)
(*                                                                         *)
(* Text is modelled as a sequence of one-character strings, so that        *)
(* split, trim, startsWith, parseInt, replace and includes are computed    *)
(* character by character as the JavaScript built-ins compute them.        *)
(***************************************************************************)
EXTENDS Integers, Sequences, FiniteSets

VARIABLES
  variant,           \* "index" (src/index.js) or "server" (src/server.js)
  msgFile,           \* messages.txt in the working directory
  timeFile,          \* time.txt
  targetsFile,       \* targets.txt
  now,               \* the event loop's clock, in milliseconds
  calls,             \* one record per scheduleMessages call, in call order
  timers,            \* one record per setTimeout, in creation order
  sends,             \* one record per sock.sendMessage invocation, in order
  connectionStatus,  \* server.js:37
  lastQr,            \* server.js:39
  crashed,           \* an exception escaped a handler or a timer callback
  errorLines,        \* lines written by the catch block of a send
  lastError,         \* server.js:38
  authed,            \* whether ./auth_info.json exists
  response,          \* the answer to the latest HTTP request
  seen               \* what the protocol client has delivered so far

vars == <<variant, msgFile, timeFile, targetsFile, now, calls, timers, sends,
          connectionStatus, lastQr, crashed, errorLines, lastError, authed,
          response, seen>>

(***************************************************************************)
(* Bounds of the model.                                                    *)
(***************************************************************************)
\* scheduleMessages calls (connection 'open' updates) in one run
MaxCalls == 2
\* a connection 'open' update is taken only while fewer timers than this exist
MaxTimers == 2
\* sendMessage invocations that fail (throw or reject) in one run
MaxFailures == 1

(***************************************************************************)
(* JavaScript string built-ins.                                            *)
(***************************************************************************)
Digits == <<"0", "1", "2", "3", "4", "5", "6", "7", "8", "9">>

HexDigits == Digits \o <<"a", "b", "c", "d", "e", "f">>

\* the characters String.prototype.trim and parseInt treat as white space
WhiteSpace == {" ", "\t", "\r", "\n"}

RECURSIVE indexIn(_, _, _)
indexIn(c, s, k) ==
  IF k > Len(s) THEN 0 ELSE IF s[k] = c THEN k ELSE indexIn(c, s, k + 1)

isDigit(c) == indexIn(c, Digits, 1) > 0

digitValue(c) == indexIn(c, Digits, 1) - 1

lower(c) ==
  CASE c = "A" -> "a" [] c = "B" -> "b" [] c = "C" -> "c"
    [] c = "D" -> "d" [] c = "E" -> "e" [] c = "F" -> "f" [] OTHER -> c

isHexDigit(c) == indexIn(lower(c), HexDigits, 1) > 0

hexValue(c) == indexIn(lower(c), HexDigits, 1) - 1

RECURSIVE splitAcc(_, _, _, _)
splitAcc(s, sep, cur, acc) ==
  IF s = <<>> THEN Append(acc, cur)
  ELSE IF Head(s) = sep THEN splitAcc(Tail(s), sep, <<>>, Append(acc, cur))
  ELSE splitAcc(Tail(s), sep, Append(cur, Head(s)), acc)

\* s.split(sep) for a one-character separator
split(s, sep) == splitAcc(s, sep, <<>>, <<>>)

RECURSIVE trimStart(_)
trimStart(s) ==
  IF s # <<>> /\ Head(s) \in WhiteSpace THEN trimStart(Tail(s)) ELSE s

RECURSIVE trimEnd(_)
trimEnd(s) ==
  IF s # <<>> /\ s[Len(s)] \in WhiteSpace
  THEN trimEnd(SubSeq(s, 1, Len(s) - 1)) ELSE s

trim(s) == trimEnd(trimStart(s))

startsWith(s, c) == s # <<>> /\ Head(s) = c

includes(s, c) == \E k \in 1..Len(s) : s[k] = c

\* t.replace(/\D/g, '')
stripNonDigits(s) == SelectSeq(s, isDigit)

(***************************************************************************)
(* parseInt(string) with no radix: leading white space, an optional sign,  *)
(* a 0x/0X prefix selecting radix 16, then the longest run of digits; NaN  *)
(* when that run is empty.                                                 *)
(***************************************************************************)
NaN == [nan |-> TRUE, val |-> 0]

Num(v) == [nan |-> FALSE, val |-> v]

isNaN(x) == x.nan

RECURSIVE digitRun(_, _, _)
digitRun(s, radix, acc) ==
  IF s # <<>> /\ (IF radix = 16 THEN isHexDigit(Head(s)) ELSE isDigit(Head(s)))
  THEN digitRun(Tail(s), radix,
                acc * radix
                  + (IF radix = 16 THEN hexValue(Head(s)) ELSE digitValue(Head(s))))
  ELSE acc

hasDigit(s, radix) ==
  s # <<>> /\ (IF radix = 16 THEN isHexDigit(Head(s)) ELSE isDigit(Head(s)))

parseInt(str) ==
  LET s0 == trimStart(str)
      neg == startsWith(s0, "-")
      s1 == IF startsWith(s0, "-") \/ startsWith(s0, "+") THEN Tail(s0) ELSE s0
      hex == Len(s1) >= 2 /\ s1[1] = "0" /\ s1[2] \in {"x", "X"}
      radix == IF hex THEN 16 ELSE 10
      s2 == IF hex THEN SubSeq(s1, 3, Len(s1)) ELSE s1
  IN IF ~hasDigit(s2, radix) THEN NaN
     ELSE Num((IF neg THEN -1 ELSE 1) * digitRun(s2, radix, 0))

(***************************************************************************)
(* Files.                                                                  *)
(***************************************************************************)
NoFile == [exists |-> FALSE, data |-> <<>>]

File(text) == [exists |-> TRUE, data |-> text]

\* the filter without the comment test
keepLineNoComment(l) == Len(l) > 0

\* readLines (index.js:8-14, server.js:107-113)
keepLine(l) == Len(l) > 0 /\ ~startsWith(l, "#")

\* fs.readFileSync throws ENOENT for a path that does not exist
readFileSyncThrows(file) == ~file.exists

\* readLines without the existsSync test
readLinesThrowsUnguarded(file) == readFileSyncThrows(file)

\* whether readLines throws: readFileSync is reached only past the
\* existsSync test
readLinesThrows(file) == file.exists /\ readFileSyncThrows(file)

readLines(file) ==
  IF ~file.exists THEN <<>>
  ELSE LET raw == split(file.data, "\n")
           trimmed == [k \in 1..Len(raw) |-> trim(raw[k])]
       IN SelectSeq(trimmed, keepLine)

(***************************************************************************)
(* scheduleMessages (index.js:35-80, server.js:115-160).                   *)
(***************************************************************************)
\* '@s.whatsapp.net'
Suffix ==
  <<"@", "s", ".", "w", "h", "a", "t", "s", "a", "p", "p", ".", "n", "e", "t">>

\* normalize without the pass-through of addresses
normalizeStripFirst(t) == stripNonDigits(t) \o Suffix

\* the callback of targetsRaw.map
normalize(t) ==
  LET clean == stripNonDigits(t)
  IN IF includes(t, "@") THEN t ELSE clean \o Suffix

\* readLines(timeFile).map(n => parseInt(n))
parseDelays(lines) == [k \in 1..Len(lines) |-> parseInt(lines[k])]

\* validate without the comparison of the two lengths
validateNoMismatch(messages, delays, targetsRaw) ==
  IF Len(messages) = 0 \/ Len(delays) = 0 THEN "warnEmpty"
  ELSE IF Len(targetsRaw) = 0 THEN "warnNoTargets"
  ELSE "scheduled"

\* validate without the test of the recipient list
validateNoTargets(messages, delays, targetsRaw) ==
  IF Len(messages) = 0 \/ Len(delays) = 0 THEN "warnEmpty"
  ELSE IF Len(messages) # Len(delays) THEN "warnMismatch"
  ELSE "scheduled"

\* the three early returns; "scheduled" when none is taken
validate(messages, delays, targetsRaw) ==
  IF Len(messages) = 0 \/ Len(delays) = 0 THEN "warnEmpty"
  ELSE IF Len(messages) # Len(delays) THEN "warnMismatch"
  ELSE IF Len(targetsRaw) = 0 THEN "warnNoTargets"
  ELSE "scheduled"

\* Node's largest timer duration, 2^31 - 1 ms
TIMEOUT_MAX == 2147483647

\* setTimeout(cb, delaySec * 1000): a duration below 1 ms or above
\* TIMEOUT_MAX is replaced by 1 ms.  Both tests are decided on delaySec
\* (an integer), so that the product is only formed when it is in range.
timeoutAfter(delaySec) ==
  IF delaySec > TIMEOUT_MAX \div 1000 THEN 1
  ELSE IF delaySec <= 0 THEN 1
  ELSE delaySec * 1000

\* scheduleOne reading an unparseable delay as 0 (delays[i] || 0)
scheduleOneNaNAsZero(acc, c, i, delays, t) ==
  LET d == IF i \in DOMAIN delays /\ ~isNaN(delays[i]) THEN delays[i].val ELSE 0
  IN Append(acc, [call |-> c, index |-> i, delaySec |-> d,
                  after |-> timeoutAfter(d), expiry |-> t + timeoutAfter(d),
                  fires |-> 0])

\* the body of messages.forEach for index i (1-based here, 0-based in the
\* code): the timer of call c for message i.  Its callback closes over
\* message and targets, which are calls[c].messages[i] and calls[c].targets.
scheduleOne(acc, c, i, delays, t) ==
  LET delaySec == IF i \in DOMAIN delays THEN delays[i] ELSE NaN  \* isNaN(undefined)
  IN IF isNaN(delaySec) THEN acc
     ELSE Append(acc, [call |-> c, index |-> i, delaySec |-> delaySec.val,
                       after |-> timeoutAfter(delaySec.val),
                       expiry |-> t + timeoutAfter(delaySec.val),
                       fires |-> 0])

RECURSIVE forEachMessage(_, _, _, _, _, _)
forEachMessage(acc, c, i, messages, delays, t) ==
  IF i > Len(messages) THEN acc
  ELSE forEachMessage(scheduleOne(acc, c, i, delays, t),
                      c, i + 1, messages, delays, t)

\* One call: what it read, how validation ended, the timers it created.
scheduleMessages(c, t) ==
  LET messages == readLines(msgFile)
      delays == parseDelays(readLines(timeFile))
      targetsRaw == readLines(targetsFile)
      threw == \/ readLinesThrows(msgFile)
               \/ readLinesThrows(timeFile)
               \/ readLinesThrows(targetsFile)
      outcome == IF threw THEN "threw"
                 ELSE validate(messages, delays, targetsRaw)
      targets == [g \in 1..Len(targetsRaw) |-> normalize(targetsRaw[g])]
  IN [threw |-> threw,
      call |-> [at |-> t, outcome |-> outcome, messages |-> messages,
                delays |-> delays, targetsRaw |-> targetsRaw,
                targets |-> IF outcome = "scheduled" THEN targets ELSE <<>>],
      timers |-> IF outcome = "scheduled"
                 THEN forEachMessage(<<>>, c, 1, messages, delays, t)
                 ELSE <<>>]

(***************************************************************************)
(* The connection.update handler (index.js:22-32, server.js:71-92).        *)
(***************************************************************************)
\* update.qr is undefined
NoQr == "none"

\* update.connection is undefined, or a value the handler has no branch for
\* ('connecting')
NoConnection == "other"

Updates ==
  [connection : {NoConnection, "open", "close"},
   qr : {NoQr, "qr1"}]

\* a handler in which the QR branch has the last word
statusAfterQrWins(u, status) ==
  IF u.qr # NoQr THEN "qr"
  ELSE IF u.connection = "open" THEN "open"
  ELSE IF u.connection = "close" THEN "close"
  ELSE status

\* connectionStatus after the handler (server.js:73-91)
statusAfter(u, status) ==
  IF u.connection = "open" THEN "open"
  ELSE IF u.connection = "close" THEN "close"
  ELSE IF u.qr # NoQr THEN "qr"
  ELSE status

\* a handler that stores the QR string after the 'open' branch
qrAfterStoreLast(u, qr) ==
  IF u.qr # NoQr THEN u.qr
  ELSE IF u.connection = "open" THEN "null"
  ELSE qr

\* lastQr after the handler (server.js:73-83)
qrAfter(u, qr) ==
  IF u.connection = "open" THEN "null"
  ELSE IF u.qr # NoQr THEN u.qr
  ELSE qr

hasFired(t) == t.fires > 0

\* a 'close' branch that clears the timers still pending
timersAfterCloseCancel(ts) == SelectSeq(ts, hasFired)

\* the connection === 'close' branch (server.js:88-91; index.js has none):
\* no clearTimeout, the timers are left as they are
timersAfterClose(ts) == ts

\* no HTTP request is being answered
NoResponse == [route |-> "none", code |-> 0, body |-> [text |-> ""]]

\* a handler that schedules on every update but 'close'
opensUnlessClose(u) == u.connection # "close"

\* if (connection === 'open')
opens(u) == u.connection = "open"

\* the call record, with the connection value of the update that made it
calledOn(call, u) ==
  [at |-> call.at, outcome |-> call.outcome, messages |-> call.messages,
   delays |-> call.delays, targetsRaw |-> call.targetsRaw,
   targets |-> call.targets, on |-> u.connection]

\* index.js calls scheduleMessages bare, server.js inside try/catch
handlerThrows(threw) == threw /\ variant = "index"

ConnectionUpdate(u) ==
  /\ ~crashed
  /\ opens(u) => Len(calls) < MaxCalls /\ Len(timers) < MaxTimers
  /\ IF variant = "server"
     THEN /\ connectionStatus' = statusAfter(u, connectionStatus)
          /\ lastQr' = qrAfter(u, lastQr)
     ELSE UNCHANGED <<connectionStatus, lastQr>>
  /\ IF opens(u)
     THEN \E r \in {scheduleMessages(Len(calls) + 1, now)} :
            /\ calls' = Append(calls, calledOn(r.call, u))
            /\ timers' = timers \o r.timers
            /\ crashed' = handlerThrows(r.threw)
     ELSE /\ calls' = calls
          /\ timers' = IF u.connection = "close"
                       THEN timersAfterClose(timers) ELSE timers
          /\ crashed' = crashed
  /\ response' = NoResponse
  /\ UNCHANGED <<variant, msgFile, timeFile, targetsFile, now, sends,
                 errorLines, lastError, authed>>

(***************************************************************************)
(* Timers and sends (index.js:67-76, server.js:147-156).                   *)
(***************************************************************************)
pending(k) == timers[k].fires = 0

failures == Cardinality({s \in DOMAIN sends : sends[s].state = "failed"})

\* Node runs due timers by expiry; timers of one duration share a list and
\* run in creation order.
runsNext(k) ==
  /\ k \in DOMAIN timers
  /\ pending(k)
  /\ timers[k].expiry <= now
  /\ \A j \in DOMAIN timers :
       pending(j) =>
         /\ timers[j].expiry >= timers[k].expiry
         /\ (timers[j].expiry = timers[k].expiry
               /\ timers[j].after = timers[k].after) => j >= k

\* the message and the targets the callback of timer k closes over
messageOf(k) == calls[timers[k].call].messages[timers[k].index]

targetsOf(k) == calls[timers[k].call].targets

\* the sendMessage invocation of timer k for target g
invocation(k, g, thrown) ==
  [timer |-> k, call |-> timers[k].call, index |-> timers[k].index,
   target |-> g, address |-> targetsOf(k)[g], text |-> messageOf(k),
   state |-> IF g \in thrown THEN "failed" ELSE "inflight"]

\* dispatch with one try/catch around a synchronous loop: the first throwing
\* target ends the loop
dispatchAbortOnThrow(k, thrown) ==
  LET last == IF thrown = {} THEN Len(targetsOf(k))
              ELSE CHOOSE g \in thrown : \A h \in thrown : g <= h
  IN [g \in 1..last |-> invocation(k, g, thrown)]

\* dispatch sending to targets[0] only
dispatchFirstOnly(k, thrown) == [g \in 1..1 |-> invocation(k, g, thrown)]

\* targets.forEach(async target => { try { await sock.sendMessage(...) ... }
\* catch ... }): one invocation per target, in order; an invocation that
\* throws is caught inside its own async callback.
dispatch(k, thrown) ==
  [g \in 1..Len(targetsOf(k)) |-> invocation(k, g, thrown)]

\* whether an exception leaves the timer callback
escapes(k, thrown) == FALSE

\* a one-shot timer: setTimeout, not setInterval
afterFire(t) == [t EXCEPT !.fires = @ + 1]

Fire(k) ==
  /\ ~crashed
  /\ runsNext(k)
  /\ \E thrown \in SUBSET (1..Len(targetsOf(k))) :
       /\ failures + Cardinality(thrown) <= MaxFailures
       /\ sends' = sends \o dispatch(k, thrown)
       /\ errorLines' = errorLines + Cardinality(thrown)
       /\ crashed' = escapes(k, thrown)
  /\ timers' = [timers EXCEPT ![k] = afterFire(timers[k])]
  /\ response' = NoResponse
  /\ UNCHANGED <<variant, msgFile, timeFile, targetsFile, now, calls,
                 connectionStatus, lastQr, lastError, authed, seen>>

\* a catch block that sends again after a failure
settleWithRetry(s, ok) ==
  IF ok THEN [sends EXCEPT ![s].state = "sent"]
  ELSE Append([sends EXCEPT ![s].state = "failed"], sends[s])

\* the awaited promise settles: resolved (the 'Sent to' log line) or
\* rejected (the catch block's error log line)
settle(s, ok) ==
  [sends EXCEPT ![s].state = IF ok THEN "sent" ELSE "failed"]

\* sends awaited one after the other (for ... of with await): a send
\* settles only when those before it have settled
CompleteInOrder(s) ==
  /\ ~crashed
  /\ s \in DOMAIN sends
  /\ sends[s].state = "inflight"
  /\ \A r \in DOMAIN sends : r < s => sends[r].state # "inflight"
  /\ \E ok \in BOOLEAN :
       /\ ~ok => failures < MaxFailures
       /\ sends' = settle(s, ok)
       /\ errorLines' = IF ok THEN errorLines ELSE errorLines + 1
  /\ response' = NoResponse
  /\ UNCHANGED <<variant, msgFile, timeFile, targetsFile, now, calls, timers,
                 connectionStatus, lastQr, crashed, lastError, authed, seen>>

Complete(s) ==
  /\ ~crashed
  /\ s \in DOMAIN sends
  /\ sends[s].state = "inflight"
  /\ \E ok \in BOOLEAN :
       /\ ~ok => failures < MaxFailures
       /\ sends' = settle(s, ok)
       /\ errorLines' = IF ok THEN errorLines ELSE errorLines + 1
  /\ response' = NoResponse
  /\ UNCHANGED <<variant, msgFile, timeFile, targetsFile, now, calls, timers,
                 connectionStatus, lastQr, crashed, lastError, authed, seen>>

\* the clock reaches the earliest pending expiry
Tick ==
  /\ ~crashed
  /\ \E k \in DOMAIN timers :
       /\ pending(k)
       /\ timers[k].expiry > now
       /\ \A j \in DOMAIN timers : pending(j) => timers[j].expiry >= timers[k].expiry
       /\ now' = timers[k].expiry
  /\ response' = NoResponse
  /\ UNCHANGED <<variant, msgFile, timeFile, targetsFile, calls, timers, sends,
                 connectionStatus, lastQr, crashed, errorLines, lastError,
                 authed, seen>>

(***************************************************************************)
(* The other event handlers of server.js (server.js:69, 94-101; the script *)
(* has the first only, index.js:20).                                       *)
(***************************************************************************)
\* saveState writes ./auth_info.json
afterSaveState(exists) == TRUE

\* the second creds.update handler: if (fs.existsSync(...)) lastQr = null
qrAfterCreds(exists, qr) == IF exists THEN "null" ELSE qr

\* the two creds.update listeners, in registration order
CredsUpdate ==
  /\ ~crashed
  /\ authed' = afterSaveState(authed)
  /\ lastQr' = IF variant = "server" THEN qrAfterCreds(authed', lastQr)
               ELSE lastQr
  /\ response' = NoResponse
  /\ UNCHANGED <<variant, msgFile, timeFile, targetsFile, now, calls, timers,
                 sends, connectionStatus, crashed, errorLines, lastError, seen>>

\* values the client passes to the connection.error listener: nothing, an
\* Error with a message, an object without one
Errors ==
  { [given |-> FALSE, message |-> "", json |-> "null"],
    [given |-> TRUE, message |-> "boom", json |-> "{}"],
    [given |-> TRUE, message |-> "", json |-> "{\"code\":1}"] }

\* err && (err.message || JSON.stringify(err))
errorText(err) ==
  IF ~err.given THEN "null"
  ELSE IF err.message # "" THEN err.message
  ELSE err.json

ConnectionError(err) ==
  /\ ~crashed
  /\ variant = "server"
  /\ lastError' = errorText(err)
  /\ response' = NoResponse
  /\ UNCHANGED <<variant, msgFile, timeFile, targetsFile, now, calls, timers,
                 sends, connectionStatus, lastQr, crashed, errorLines, authed,
                 seen>>

(***************************************************************************)
(* The HTTP routes of server.js (server.js:41-61).  response holds the      *)
(* answer of the request served last, until the next event is handled.     *)
(***************************************************************************)
\* /status reporting a code as pending while connectionStatus is 'qr'
statusAnswerByStatus ==
  [route |-> "/status", code |-> 200,
   body |-> [connection |-> connectionStatus, lastError |-> lastError,
             authed |-> authed, hasQr |-> connectionStatus = "qr"]]

\* res.json({ connection, lastError, authed, hasQr: !!lastQr })
statusAnswer ==
  [route |-> "/status", code |-> 200,
   body |-> [connection |-> connectionStatus, lastError |-> lastError,
             authed |-> authed, hasQr |-> lastQr # "null"]]

\* qrcode.toString(text, { type: 'svg' }): the image that encodes text
svgOf(text) == [svg |-> text]

\* qrcode.toString rejects an empty text ('No input text')
renderThrows(text) == text = ""

\* the /qr.svg route: 404 without a code, otherwise the rendered code, or
\* 500 when rendering throws
qrSvgAnswer ==
  IF lastQr = "null"
  THEN [route |-> "/qr.svg", code |-> 404, body |-> [text |-> "No QR available"]]
  ELSE IF renderThrows(lastQr)
  THEN [route |-> "/qr.svg", code |-> 500, body |-> [text |-> "QR render error"]]
  ELSE [route |-> "/qr.svg", code |-> 200, body |-> svgOf(lastQr)]

triggerAnswer == [route |-> "/trigger", code |-> 200, body |-> [ok |-> TRUE]]

GetStatus ==
  /\ ~crashed
  /\ variant = "server"
  /\ response' = statusAnswer
  /\ UNCHANGED <<variant, msgFile, timeFile, targetsFile, now, calls, timers,
                 sends, connectionStatus, lastQr, crashed, errorLines,
                 lastError, authed, seen>>

\* a /qr.svg route that hands each code out once
GetQrSvgOnce ==
  /\ ~crashed
  /\ variant = "server"
  /\ response' = qrSvgAnswer
  /\ lastQr' = "null"
  /\ UNCHANGED <<variant, msgFile, timeFile, targetsFile, now, calls, timers,
                 sends, connectionStatus, crashed, errorLines, lastError,
                 authed, seen>>

GetQrSvg ==
  /\ ~crashed
  /\ variant = "server"
  /\ response' = qrSvgAnswer
  /\ UNCHANGED <<variant, msgFile, timeFile, targetsFile, now, calls, timers,
                 sends, connectionStatus, lastQr, crashed, errorLines,
                 lastError, authed, seen>>

PostTrigger ==
  /\ ~crashed
  /\ variant = "server"
  /\ response' = triggerAnswer
  /\ UNCHANGED <<variant, msgFile, timeFile, targetsFile, now, calls, timers,
                 sends, connectionStatus, lastQr, crashed, errorLines,
                 lastError, authed, seen>>

(***************************************************************************)
(* What the protocol client has delivered: the record the properties of    *)
(* server.js are stated against.                                           *)
(***************************************************************************)
NoUpdate == [connection |-> "never", qr |-> NoQr]

NothingSeen == [last |-> NoUpdate, qr |-> NoQr, openSinceQr |-> FALSE]

\* last: the latest update; qr: the latest QR string any update carried;
\* openSinceQr: an 'open' update came with or after the latest QR string
observe(u, h) ==
  [last |-> u,
   qr |-> IF u.qr # NoQr THEN u.qr ELSE h.qr,
   openSinceQr |-> IF u.connection = "open" THEN TRUE
                   ELSE IF u.qr # NoQr THEN FALSE
                   ELSE h.openSinceQr]

(***************************************************************************)
(* Inputs: the contents of the three files, and which program runs.        *)
(***************************************************************************)
RECURSIVE joinLines(_)
joinLines(ls) ==
  IF ls = <<>> THEN <<>> ELSE Head(ls) \o <<"\n">> \o joinLines(Tail(ls))

MsgFiles ==
  { NoFile,
    File(joinLines(<< <<"#", " ", "n", "o", "t", "e">>, <<>> >>)),
    File(<<"h", "i">>),
    File(joinLines(<< <<" ", "h", "i", " ", "\r">>,
                      <<" ", "#", " ", "n", "o", "t", "e">>,
                      <<>>,
                      <<"y", "o", "#", "1">> >>)) }

TimeFiles ==
  { NoFile,
    File(<<>>),
    File(joinLines(<< <<"0", "x", "1">> >>)),
    File(joinLines(<< <<"2">>, <<"#", "s">>, <<"1", "s">> >>)),
    File(joinLines(<< <<"a", "b", "c">>, <<"1">> >>)),
    File(joinLines(<< <<"0", "x", "1">>, <<"1">>, <<"-", "5">> >>)),
    File(joinLines(<< <<"3", "0", "0", "0", "0", "0", "0">>, <<"1">> >>)) }

TargetFiles ==
  { NoFile,
    File(joinLines(<< <<"#", "n", "o", "n", "e">> >>)),
    File(joinLines(<< <<"1", "5", "5", "5", "1", "2", "3", "4", "5", "6", "7">> >>)),
    File(joinLines(<< <<"+", "1", " ", "5", "5", "5", "-", "0", "1", "0", "0">>,
                      <<"1", "2", "@", "g", ".", "u", "s">> >>)) }

Init ==
  /\ variant \in {"index", "server"}
  /\ msgFile \in MsgFiles
  /\ timeFile \in TimeFiles
  /\ targetsFile \in TargetFiles
  /\ now = 0
  /\ calls = <<>>
  /\ timers = <<>>
  /\ sends = <<>>
  /\ connectionStatus = "init"
  /\ lastQr = "null"
  /\ crashed = FALSE
  /\ errorLines = 0
  /\ lastError = "null"
  /\ authed = FALSE
  /\ response = NoResponse
  /\ seen = NothingSeen

\* Scheduling, in both programs.  The routes and the credential and error
\* events touch neither calls, timers nor sends and are left to ServerSpec.
Next ==
  \/ \E u \in Updates : ConnectionUpdate(u) /\ UNCHANGED seen
  \/ \E k \in DOMAIN timers : Fire(k)
  \/ \E s \in DOMAIN sends : Complete(s)
  \/ Tick

Spec == Init /\ [][Next]_vars

\* While the process runs, the event loop advances its clock to the next
\* expiry and runs the timers that are due.
FairSpec ==
  /\ Spec
  /\ WF_vars(Tick)
  /\ WF_vars(\E k \in DOMAIN timers : Fire(k))

\* server.js with its routes and all its events, on one message for one
\* recipient; the client may show a second QR string.
ServerUpdates ==
  [connection : {NoConnection, "open", "close"},
   qr : {NoQr, "qr1", "qr2"}]

ServerInit ==
  /\ variant = "server"
  /\ msgFile = File(<<"h", "i">>)
  /\ timeFile = File(joinLines(<< <<"0", "x", "1">> >>))
  /\ targetsFile = File(joinLines(<< <<"1", "2", "@", "g", ".", "u", "s">> >>))
  /\ now = 0
  /\ calls = <<>>
  /\ timers = <<>>
  /\ sends = <<>>
  /\ connectionStatus = "init"
  /\ lastQr = "null"
  /\ crashed = FALSE
  /\ errorLines = 0
  /\ lastError = "null"
  /\ authed \in BOOLEAN
  /\ response = NoResponse
  /\ seen = NothingSeen

ServerNext ==
  \/ \E u \in ServerUpdates : ConnectionUpdate(u) /\ seen' = observe(u, seen)
  \/ CredsUpdate
  \/ \E err \in Errors : ConnectionError(err)
  \/ GetStatus
  \/ GetQrSvg
  \/ PostTrigger
  \/ \E k \in DOMAIN timers : Fire(k)
  \/ \E s \in DOMAIN sends : Complete(s)
  \/ Tick

ServerSpec == ServerInit /\ [][ServerNext]_vars

(***************************************************************************)
(* Vocabulary of the properties.                                           *)
(***************************************************************************)
timersOf(c) == {k \in DOMAIN timers : timers[k].call = c}

sendsOf(c) == {s \in DOMAIN sends : sends[s].call = c}

sendsFor(c, i, g) ==
  {s \in sendsOf(c) : sends[s].index = i /\ sends[s].target = g}

allFired(c) == \A k \in timersOf(c) : timers[k].fires > 0

allParsed(c) == \A i \in DOMAIN calls[c].delays : ~calls[c].delays[i].nan

\* the three lists of call c have the shape validation asks for
validShape(c) ==
  /\ Len(calls[c].messages) > 0
  /\ Len(calls[c].delays) = Len(calls[c].messages)
  /\ Len(calls[c].targetsRaw) > 0

\* C1: a call whose lists pass validation and whose delays all parse has,
\* once all its timers have fired, made exactly messages.length x
\* targets.length sendMessage invocations: one per (message index, target)
\* pair, carrying that message and that target's address.
C1_OneSendPerPair ==
  \A c \in DOMAIN calls :
    (validShape(c) /\ allParsed(c) /\ allFired(c)) =>
      /\ Cardinality(sendsOf(c))
           = Len(calls[c].messages) * Len(calls[c].targetsRaw)
      /\ \A i \in DOMAIN calls[c].messages :
           \A g \in DOMAIN calls[c].targetsRaw :
             /\ Cardinality(sendsFor(c, i, g)) = 1
             /\ \A s \in sendsFor(c, i, g) :
                  /\ sends[s].text = calls[c].messages[i]
                  /\ sends[s].address = calls[c].targets[g]

C1_Witness ==
  \E c \in DOMAIN calls :
    /\ validShape(c) /\ allParsed(c) /\ allFired(c)
    /\ Len(calls[c].messages) = 2
    /\ Len(calls[c].targetsRaw) = 2
    /\ Cardinality(sendsOf(c)) = 4

\* C2: a call that reads different numbers of message lines and delay lines
\* aborts with a warning: it creates no timer, no sendMessage invocation ever
\* results from it, and the process does not crash.
C2_MismatchAborts ==
  \A c \in DOMAIN calls :
    Len(calls[c].messages) # Len(calls[c].delays) =>
      /\ calls[c].outcome \in {"warnEmpty", "warnMismatch"}
      /\ timersOf(c) = {}
      /\ sendsOf(c) = {}
      /\ ~crashed

C2_Witness ==
  \E c \in DOMAIN calls :
    /\ Len(calls[c].messages) = 2
    /\ Len(calls[c].delays) = 3
    /\ Len(calls[c].targetsRaw) > 0
    /\ calls[c].outcome = "warnMismatch"

\* C3: a call that reads an empty message list, an empty delay list or an
\* empty recipient list aborts with a warning, whatever the other two lists
\* hold: it creates no timer and no sendMessage invocation ever results.
C3_EmptyAborts ==
  \A c \in DOMAIN calls :
    (\/ Len(calls[c].messages) = 0
     \/ Len(calls[c].delays) = 0
     \/ Len(calls[c].targetsRaw) = 0) =>
      /\ calls[c].outcome \in {"warnEmpty", "warnMismatch", "warnNoTargets"}
      /\ timersOf(c) = {}
      /\ sendsOf(c) = {}

C3_Witness ==
  \E c \in DOMAIN calls :
    /\ Len(calls[c].targetsRaw) = 0
    /\ Len(calls[c].messages) = 2
    /\ Len(calls[c].delays) = 2
    /\ allParsed(c)
    /\ calls[c].outcome = "warnNoTargets"
    /\ c < Len(calls)

(***************************************************************************)
(* Text, described by positions (independently of split, trim and filter). *)
(***************************************************************************)
DigitChars == {"0", "1", "2", "3", "4", "5", "6", "7", "8", "9"}

HexChars == DigitChars \cup {"a", "b", "c", "d", "e", "f",
                             "A", "B", "C", "D", "E", "F"}

\* the j-th smallest element of a set of numbers
nth(S, j) == CHOOSE p \in S : Cardinality({q \in S : q < p}) = j - 1

\* a line parseInt turns into a number: an optional sign, then a digit, and
\* not a bare 0x prefix
looksNumeric(line) ==
  LET body == IF line # <<>> /\ line[1] \in {"+", "-"}
              THEN SubSeq(line, 2, Len(line)) ELSE line
  IN /\ body # <<>>
     /\ body[1] \in DigitChars
     /\ (Len(body) >= 2 /\ body[1] = "0" /\ body[2] \in {"x", "X"}) =>
          (Len(body) >= 3 /\ body[3] \in HexChars)

\* the lines of a file that are neither blank nor comments, trimmed
expectedLines(file) ==
  LET text == file.data
      nl == {p \in 1..Len(text) : text[p] = "\n"}
      lineCount == Cardinality(nl) + 1
      lineStart(k) == IF k = 1 THEN 1 ELSE nth(nl, k - 1) + 1
      lineEnd(k) == IF k = lineCount THEN Len(text) ELSE nth(nl, k) - 1
      ink(k) == {p \in lineStart(k)..lineEnd(k) : text[p] \notin WhiteSpace}
      lo(k) == nth(ink(k), 1)
      hi(k) == nth(ink(k), Cardinality(ink(k)))
      kept == {k \in 1..lineCount : ink(k) # {} /\ text[lo(k)] # "#"}
  IN IF ~file.exists THEN <<>>
     ELSE [j \in 1..Cardinality(kept) |->
             SubSeq(text, lo(nth(kept, j)), hi(nth(kept, j)))]

\* addr is the address of the target line raw
normalizedAs(raw, addr) ==
  IF \E p \in DOMAIN raw : raw[p] = "@" THEN addr = raw
  ELSE LET dpos == {p \in DOMAIN raw : raw[p] \in DigitChars}
           n == Cardinality(dpos)
       IN /\ Len(addr) = n + 15
          /\ \A j \in 1..n : addr[j] = raw[nth(dpos, j)]
          /\ SubSeq(addr, n + 1, n + 15)
               = <<"@", "s", ".", "w", "h", "a", "t", "s", "a", "p", "p",
                   ".", "n", "e", "t">>

\* C4: in a call whose lists pass validation, an index whose delay line does
\* not parse gets no timer and no send, every other index gets its timer,
\* and once the call's timers have fired the sends are one per (parseable
\* index, target): (number of parseable delays) x targets.length in all.
C4_UnparsedDelaySkipsOnlyItself ==
  \A c \in DOMAIN calls :
    validShape(c) =>
      LET lines == readLines(timeFile)
          parsed == {i \in DOMAIN calls[c].messages : looksNumeric(lines[i])}
      IN /\ \A i \in DOMAIN calls[c].messages :
              /\ Cardinality({k \in timersOf(c) : timers[k].index = i})
                   = IF i \in parsed THEN 1 ELSE 0
              /\ i \notin parsed =>
                   \A g \in DOMAIN calls[c].targetsRaw : sendsFor(c, i, g) = {}
         /\ allFired(c) =>
              /\ Cardinality(sendsOf(c))
                   = Cardinality(parsed) * Len(calls[c].targetsRaw)
              /\ \A i \in parsed : \A g \in DOMAIN calls[c].targetsRaw :
                   Cardinality(sendsFor(c, i, g)) = 1

C4_Witness ==
  \E c \in DOMAIN calls :
    /\ validShape(c)
    /\ ~looksNumeric(readLines(timeFile)[1])
    /\ looksNumeric(readLines(timeFile)[2])
    /\ timersOf(c) # {}
    /\ allFired(c)
    /\ Len(calls[c].targetsRaw) = 2
    /\ Cardinality(sendsOf(c)) = 2

\* C5: a failed send (thrown or rejected) is caught where it happens: every
\* fired timer has invoked sendMessage once for each of its targets whatever
\* failed, nothing escapes the timer callback, and the timers still pending
\* go on to fire.
C5_FailureIsolated ==
  /\ ~crashed
  /\ \A k \in DOMAIN timers :
       timers[k].fires > 0 =>
         \A g \in DOMAIN targetsOf(k) :
           Cardinality({s \in DOMAIN sends :
                          sends[s].timer = k /\ sends[s].target = g}) = 1
  /\ (\E k \in DOMAIN timers : pending(k)) =>
       ENABLED (Tick \/ \E k \in DOMAIN timers : Fire(k))

C5_Witness ==
  \E s \in DOMAIN sends : \E s2 \in DOMAIN sends : \E s3 \in DOMAIN sends :
    /\ sends[s].state = "failed"
    /\ sends[s].target = 1
    /\ sends[s2].timer = sends[s].timer
    /\ sends[s2].target = 2
    /\ sends[s2].state = "sent"
    /\ sends[s3].timer # sends[s].timer
    /\ s3 > s2
    /\ sends[s3].state = "sent"

\* C6: the normalized list has the length and order of the raw target list;
\* a target containing "@" is kept unchanged, any other becomes its digits
\* followed by "@s.whatsapp.net"; every send goes to the normalized address
\* of its target.
C6_Normalization ==
  /\ \A c \in DOMAIN calls :
       validShape(c) =>
         /\ Len(calls[c].targets) = Len(calls[c].targetsRaw)
         /\ \A g \in DOMAIN calls[c].targetsRaw :
              /\ normalizedAs(calls[c].targetsRaw[g], calls[c].targets[g])
              /\ calls[c].targetsRaw[g]
                   = <<"1", "5", "5", "5", "1", "2", "3", "4", "5", "6", "7">>
                 => calls[c].targets[g]
                      = <<"1", "5", "5", "5", "1", "2", "3", "4", "5", "6", "7",
                          "@", "s", ".", "w", "h", "a", "t", "s", "a", "p", "p",
                          ".", "n", "e", "t">>
  /\ \A s \in DOMAIN sends :
       sends[s].address = calls[sends[s].call].targets[sends[s].target]

C6_Witness ==
  \E s \in DOMAIN sends : \E s2 \in DOMAIN sends :
    /\ sends[s].address = <<"1", "2", "@", "g", ".", "u", "s">>
    /\ sends[s2].address
         = <<"1", "5", "5", "5", "0", "1", "0", "0",
             "@", "s", ".", "w", "h", "a", "t", "s", "a", "p", "p",
             ".", "n", "e", "t">>
    /\ calls[sends[s2].call].targetsRaw[sends[s2].target]
         = <<"+", "1", " ", "5", "5", "5", "-", "0", "1", "0", "0">>

\* C7: every call of scheduleMessages reads from each file, in file order,
\* exactly the trimmed lines that are not blank and do not start with "#":
\* no parsed line is empty, starts with "#" or keeps white space at either
\* end.  What earlier calls read stays as it was.
C7_ReadLines ==
  [][calls' # calls =>
       LET c == calls'[Len(calls')]
       IN /\ calls' = Append(calls, c)
          /\ c.messages = expectedLines(msgFile)
          /\ c.delays = parseDelays(expectedLines(timeFile))
          /\ c.targetsRaw = expectedLines(targetsFile)
          /\ \A l \in {c.messages[i] : i \in DOMAIN c.messages}
                  \cup {c.targetsRaw[g] : g \in DOMAIN c.targetsRaw} :
               /\ l # <<>>
               /\ l[1] # "#"
               /\ l[1] \notin WhiteSpace
               /\ l[Len(l)] \notin WhiteSpace]_vars

C7_Witness ==
  \E c \in DOMAIN calls :
    /\ calls[c].messages = << <<"h", "i">>, <<"y", "o", "#", "1">> >>
    /\ Cardinality({p \in DOMAIN msgFile.data : msgFile.data[p] = "\n"}) = 4
    /\ Len(calls[c].delays) = 2
    /\ Cardinality({p \in DOMAIN timeFile.data : timeFile.data[p] = "\n"}) = 3
    /\ Len(calls[c].targetsRaw) = 2

\* C8: a timer, once created, is never removed, changed or re-armed, by a
\* connection 'close' update or anything else; it fires at most once, and
\* while the process keeps running it does fire: again and again every
\* timer created so far has fired once.
C8_TimerFiresExactlyOnce ==
  /\ [][\A k \in DOMAIN timers :
          /\ k \in DOMAIN timers'
          /\ timers'[k].fires \in {timers[k].fires, timers[k].fires + 1}
          /\ timers'[k].fires <= 1
          /\ [timers'[k] EXCEPT !.fires = 0] = [timers[k] EXCEPT !.fires = 0]]_vars
  /\ []<>(\A k \in DOMAIN timers : timers[k].fires = 1)

C8_Witness ==
  /\ variant = "server"
  /\ connectionStatus = "close"
  /\ \E k \in DOMAIN timers : pending(k)
  /\ \E k \in DOMAIN timers : timers[k].fires = 1

\* C9: of two messages scheduled by the same call, the one with the smaller
\* delay is dispatched first: when the later one has fired, the earlier one
\* has fired too and its sends precede the later one's.
C9_SmallerDelayFirst ==
  \A k1 \in DOMAIN timers : \A k2 \in DOMAIN timers :
    (/\ timers[k1].call = timers[k2].call
     /\ timers[k1].delaySec < timers[k2].delaySec
     /\ timers[k2].fires > 0) =>
      /\ timers[k1].fires > 0
      /\ \A s1 \in DOMAIN sends : \A s2 \in DOMAIN sends :
           (sends[s1].timer = k1 /\ sends[s2].timer = k2) => s1 < s2

\* C10: over a whole run each (message, recipient) pair is sent once: no two
\* sendMessage invocations are for the same message index and target.
C10_EachPairSentOnce ==
  \A s1 \in DOMAIN sends : \A s2 \in DOMAIN sends :
    (sends[s1].index = sends[s2].index /\ sends[s1].target = sends[s2].target)
      => s1 = s2

\* C11: a call made while one of the three files does not exist reads that
\* file as the empty list and ends in one of the validation warnings: it
\* creates no timer, no sendMessage invocation results from it, and no
\* exception leaves scheduleMessages.
C11_MissingFileAborts ==
  \A c \in DOMAIN calls :
    /\ ~msgFile.exists => calls[c].messages = <<>>
    /\ ~timeFile.exists => calls[c].delays = <<>>
    /\ ~targetsFile.exists => calls[c].targetsRaw = <<>>
    /\ (~msgFile.exists \/ ~timeFile.exists \/ ~targetsFile.exists) =>
         /\ calls[c].outcome \in {"warnEmpty", "warnMismatch", "warnNoTargets"}
         /\ timersOf(c) = {}
         /\ sendsOf(c) = {}
         /\ ~crashed

C11_Witness ==
  \E c \in DOMAIN calls :
    /\ variant = "index"
    /\ ~targetsFile.exists
    /\ msgFile.exists /\ timeFile.exists
    /\ Len(calls[c].messages) = 2
    /\ Len(calls[c].delays) = 2
    /\ calls[c].outcome = "warnNoTargets"
    /\ timers = <<>>
    /\ ~crashed

C14_NoRetry ==
  /\ [](/\ ~crashed
        /\ errorLines = failures
        /\ \A s1 \in DOMAIN sends : \A s2 \in DOMAIN sends :
             (sends[s1].timer = sends[s2].timer
                /\ sends[s1].target = sends[s2].target) => s1 = s2)
  /\ [][\A s \in DOMAIN sends :
          sends[s].state = "failed" =>
            (s \in DOMAIN sends' /\ sends'[s] = sends[s])]_vars

C14_Witness ==
  \E s \in DOMAIN sends :
    /\ sends[s].state = "failed"
    /\ errorLines = 1
    /\ \A k \in DOMAIN timers : timers[k].fires = 1
    /\ \A r \in DOMAIN sends : sends[r].state # "inflight"
    /\ Len(sends) = Len(targetsOf(sends[s].timer)) * Len(timers)
    /\ Len(timers) = 2

\* C17: nothing is scheduled or sent except as a consequence of an update
\* with connection 'open', in the script and in the server alike: every
\* scheduleMessages call was made by such an update, every timer belongs to
\* a call, and every send to a timer that has fired.
C17_OnlyAfterOpen ==
  /\ \A c \in DOMAIN calls : calls[c].on = "open"
  /\ \A k \in DOMAIN timers : timers[k].call \in DOMAIN calls
  /\ \A s \in DOMAIN sends :
       /\ sends[s].timer \in DOMAIN timers
       /\ timers[sends[s].timer].fires > 0
  /\ (calls = <<>>) => (timers = <<>> /\ sends = <<>>)

C17_Witness ==
  /\ variant = "index"
  /\ Len(calls) = 1
  /\ calls[1].on = "open"
  /\ \E s \in DOMAIN sends : sends[s].state = "sent"

C15_StatusReflectsLastUpdate ==
  response.route = "/status" =>
    /\ seen.last = NoUpdate => response.body.connection = "init"
    /\ seen.last.connection = "open" => response.body.connection = "open"
    /\ seen.last.connection = "close" => response.body.connection = "close"
    /\ seen.last.qr # NoQr => response.body.connection = "qr"

\* C15, amended: the connection field of /status is connectionStatus, which
\* is 'init' before any update, 'open' after an update with connection
\* 'open', 'close' after one with connection 'close', and 'qr' after one
\* that carries a QR code and neither of these two connection values.
C15_ConnectionBeforeQr ==
  /\ response.route = "/status" => response.body.connection = connectionStatus
  /\ seen.last = NoUpdate => connectionStatus = "init"
  /\ seen.last.connection = "open" => connectionStatus = "open"
  /\ seen.last.connection = "close" => connectionStatus = "close"
  /\ (seen.last.qr # NoQr /\ seen.last.connection = NoConnection) =>
       connectionStatus = "qr"

C15_Witness ==
  /\ response.route = "/status"
  /\ seen.last = [connection |-> "close", qr |-> "qr1"]
  /\ response.body.connection = "close"
  /\ response.body.hasQr

C18_OpenClearsQr ==
  seen.openSinceQr =>
    /\ lastQr = "null"
    /\ ~statusAnswer.body.hasQr
    /\ qrSvgAnswer.code = 404
    /\ response.route = "/status" => ~response.body.hasQr
    /\ response.route = "/qr.svg" => response.code = 404

C18_Witness ==
  /\ seen.last = [connection |-> "open", qr |-> "qr1"]
  /\ response.route = "/status"
  /\ ~response.body.hasQr
  /\ response.body.connection = "open"

====
